---- MODULE Spec2Model ----
(***************************************************************************)
(* The JNI bridge of PulseNetwork: llama_jni.cpp (text generation) and     *)
(* whisper_jni.cpp (speech recognition).  Every entry point is a native    *)
(* method that several Java threads may call at once; the file-scope       *)
(* statics are shared by all of them and no entry point takes a lock.      *)
(*                                                                         *)
(* A thread's position inside an entry point is pc[t], named after the     *)
(* entry point and the source line it is about to execute.  An entry point *)
(* that borrows buffers from the JVM is entered (its _Call action), runs   *)
(* from its first statement to its last Release (the action named after    *)
(* its first line), and then builds and returns its value (the action      *)
(* named after that line).  The statements inside one action touch only    *)
(* the calling thread's locals.  An entry point that borrows nothing is    *)
(* one action.                                                             *)
(***************************************************************************)
EXTENDS Integers, Sequences, FiniteSets, TLC

\* Number of Java threads calling into the bridge.
NumThreads == 2
Threads == 1..NumThreads

\* Number of distinct rand() streams a GetEmbedding call may observe.
MaxSeed == 2
RandSeeds == 1..MaxSeed

nullptr == 0
JNI_TRUE == TRUE
JNI_FALSE == FALSE

(***************************************************************************)
(* Inputs.  Strings that the bridge only passes through are TLA+ strings;  *)
(* strings the bridge itself produces are sequences of Unicode code points *)
(* so that concatenation is sequence concatenation.                        *)
(***************************************************************************)
Paths == {"", "/sdcard/missing.gguf", "/sdcard/model.gguf"}
\* The paths that name a readable file in a format the engine accepts.
ValidPaths == {"/sdcard/model.gguf"}
ContextLengths == {2048}
ThreadCounts == {4}
\* prompt, max_tokens, temperature, top_p, top_k (temperature, top_p in hundredths)
GenRequests ==
    {[prompt |-> "hi", max_tokens |-> 16, temperature |-> 70, top_p |-> 90,
      top_k |-> 40],
     [prompt |-> "tell me a story", max_tokens |-> 1, temperature |-> 0,
      top_p |-> 100, top_k |-> 0]}
Texts == {"hello"}
Languages == {"en", "zh"}
\* sample buffers, samples in hundredths
SampleArrays == {<<0, 50, -50>>}
\* file_path, language
FileRequests == {[file_path |-> "/sdcard/a.wav", language |-> "en"],
                 [file_path |-> "/sdcard/a.xyz", language |-> "zh"]}

\* The local variables that hold a buffer borrowed from the JVM.
Buffers == {"path", "prompt_str", "text_str", "sample_data", "lang"}

VARIABLES
    g_model,          \* llama_jni.cpp: static llama_model*
    g_ctx,            \* llama_jni.cpp: static llama_context*
    g_is_generating,  \* llama_jni.cpp: static bool
    g_whisper_ctx,    \* whisper_jni.cpp: static whisper_context*
    pc,               \* per thread: "idle" or the entry point and line it is at
    call,             \* per thread: the entry point called last, its arguments
                      \* and the engine handle it found on entry
    ret,              \* per thread: what the last call returned (NoRet inside it)
    frame,            \* per thread: the borrowed buffers of the current call
    result,           \* per thread: the local variable `result` of the entry point
    crashed           \* the process was aborted

globals == <<g_model, g_ctx, g_is_generating, g_whisper_ctx>>
vars == <<g_model, g_ctx, g_is_generating, g_whisper_ctx, pc, call, ret,
          frame, result, crashed>>

NoCall == [op |-> "none"]
NoRet == [kind |-> "none"]
Void == [kind |-> "void"]
Null == [kind |-> "null"]
Value(v) == [kind |-> "value", value |-> v]
\* a local variable that has not been assigned
Unset == [kind |-> "unset"]

(***************************************************************************)
(* The borrowed buffers of one call: held are borrowed and not yet         *)
(* released, acquired were borrowed during the call, relCount counts the   *)
(* Release calls per buffer, stale are the buffers read after Release.     *)
(***************************************************************************)
NoBuffers ==
    [held |-> {}, acquired |-> {}, relCount |-> [b \in Buffers |-> 0], stale |-> {}]

\* env->GetStringUTFChars(jstr, nullptr): borrow the characters into local b.
GetStringUTFChars(f, b) ==
    [f EXCEPT !.held = @ \cup {b}, !.acquired = @ \cup {b}]

\* env->ReleaseStringUTFChars(jstr, b): give the characters back.
ReleaseStringUTFChars(f, b) ==
    [f EXCEPT !.held = @ \ {b}, !.relCount[b] = @ + 1]

\* env->GetFloatArrayElements(arr, nullptr)
GetFloatArrayElements(f, b) ==
    [f EXCEPT !.held = @ \cup {b}, !.acquired = @ \cup {b}]

\* env->ReleaseFloatArrayElements(arr, b, 0)
ReleaseFloatArrayElements(f, b) ==
    [f EXCEPT !.held = @ \ {b}, !.relCount[b] = @ + 1]

\* A statement that reads buffer b (LOGI with %s, NewStringUTF).
ReadBuffer(f, b) ==
    [f EXCEPT !.stale = @ \cup ({b} \ f.held)]

Init ==
    /\ g_model = nullptr
    /\ g_ctx = nullptr
    /\ g_is_generating = FALSE
    /\ g_whisper_ctx = nullptr
    /\ pc = [t \in Threads |-> "idle"]
    /\ call = [t \in Threads |-> NoCall]
    /\ ret = [t \in Threads |-> NoRet]
    /\ frame = [t \in Threads |-> NoBuffers]
    /\ result = [t \in Threads |-> Unset]
    /\ crashed = FALSE

\* A native method is entered: fresh locals, nothing returned yet.  Once the
\* process has aborted no thread runs.
Enter(t, c, first) ==
    /\ ~crashed
    /\ pc[t] = "idle"
    /\ pc' = [pc EXCEPT ![t] = first]
    /\ call' = [call EXCEPT ![t] = c]
    /\ ret' = [ret EXCEPT ![t] = NoRet]
    /\ frame' = [frame EXCEPT ![t] = NoBuffers]
    /\ result' = [result EXCEPT ![t] = Unset]

\* An entry point that borrows nothing, taken as one step.
Atomic(t, c, r) ==
    /\ ~crashed
    /\ pc[t] = "idle"
    /\ call' = [call EXCEPT ![t] = c]
    /\ ret' = [ret EXCEPT ![t] = r]
    /\ frame' = [frame EXCEPT ![t] = NoBuffers]
    /\ UNCHANGED <<pc, result>>

\* The statements from `from` up to the return statement at `to` have run,
\* with effect f on the borrowed buffers and v assigned to `result`.
Body(t, from, to, f, v) ==
    /\ ~crashed
    /\ pc[t] = from
    /\ pc' = [pc EXCEPT ![t] = to]
    /\ frame' = [frame EXCEPT ![t] = f]
    /\ result' = [result EXCEPT ![t] = v]
    /\ UNCHANGED <<call, ret>>

Return(t, at, r) ==
    /\ ~crashed
    /\ pc[t] = at
    /\ pc' = [pc EXCEPT ![t] = "idle"]
    /\ ret' = [ret EXCEPT ![t] = r]
    /\ result' = [result EXCEPT ![t] = Unset]
    /\ UNCHANGED call

(***************************************************************************)
(* llama_jni.cpp                                                           *)
(***************************************************************************)
\* nativeLoadModel(model_path, context_length, threads)
LLM_LoadModel_Call(t) ==
    /\ \E p \in Paths, n \in ContextLengths, k \in ThreadCounts :
          Enter(t, [op |-> "LLM.LoadModel", model_path |-> p, context_length |-> n,
                    threads |-> k, handle |-> g_model], "LLM.LoadModel_31")
    /\ UNCHANGED <<globals, crashed>>

\* Lines 31-43: borrow the path, log it, release it.  The llama.cpp calls of
\* lines 37-41 are commented out: g_model and g_ctx are not assigned.
LLM_LoadModel_31(t) ==
    /\ Body(t, "LLM.LoadModel_31", "LLM.LoadModel_46",
            ReleaseStringUTFChars(
                ReadBuffer(GetStringUTFChars(frame[t], "path"), "path"), "path"),
            Unset)
    /\ UNCHANGED <<globals, crashed>>

LLM_LoadModel_46(t) ==
    /\ Return(t, "LLM.LoadModel_46", Value(JNI_TRUE))
    /\ UNCHANGED <<globals, frame, crashed>>

\* return g_model != nullptr ? JNI_TRUE : JNI_FALSE (line 56)
LLM_Loaded == IF g_model # nullptr THEN JNI_TRUE ELSE JNI_FALSE

\* nativeIsModelLoaded()
LLM_IsModelLoaded(t) ==
    /\ Atomic(t, [op |-> "LLM.IsModelLoaded"], Value(LLM_Loaded))
    /\ UNCHANGED <<globals, crashed>>

\* "[JNI Bridge] " followed by 15 CJK characters (line 79), as code points
PlaceholderText ==
    <<91, 74, 78, 73, 32, 66, 114, 105, 100, 103, 101, 93, 32, 27169, 22411,
      26410, 23454, 38469, 21152, 36733, 65292, 36825, 26159, 21344, 20301,
      21709, 24212, 12290>>

\* nativeGenerate(prompt, max_tokens, temperature, top_p, top_k)
LLM_Generate_Call(t) ==
    /\ \E r \in GenRequests :
          Enter(t, [op |-> "LLM.Generate", request |-> r, handle |-> g_model],
                "LLM.Generate_72")
    /\ UNCHANGED <<globals, crashed>>

\* Lines 72-81: borrow the prompt, set result, release the prompt.  The
\* llama_generate call of line 77 is commented out: neither the prompt nor
\* g_ctx is read.
LLM_Generate_72(t) ==
    /\ Body(t, "LLM.Generate_72", "LLM.Generate_83",
            ReleaseStringUTFChars(GetStringUTFChars(frame[t], "prompt_str"),
                                  "prompt_str"),
            Value(PlaceholderText))
    /\ UNCHANGED <<globals, crashed>>

\* return env->NewStringUTF(result.c_str())
LLM_Generate_83(t) ==
    /\ Return(t, "LLM.Generate_83", result[t])
    /\ UNCHANGED <<globals, frame, crashed>>

\* The five fragments of lines 110-114, as code points
StreamFragments ==
    << <<36825, 26159>>, <<27169, 25311>>, <<30340>>, <<27969, 24335>>,
       <<21709, 24212, 12290>> >>

\* nativeGenerateStream(prompt, max_tokens, temperature, top_p, top_k)
LLM_GenerateStream_Call(t) ==
    /\ \E r \in GenRequests :
          Enter(t, [op |-> "LLM.GenerateStream", request |-> r, handle |-> g_model],
                "LLM.GenerateStream_99")
    /\ UNCHANGED <<globals, crashed>>

\* Lines 99-116: borrow the prompt, fill the array, release the prompt.
LLM_GenerateStream_99(t) ==
    /\ Body(t, "LLM.GenerateStream_99", "LLM.GenerateStream_118",
            ReleaseStringUTFChars(GetStringUTFChars(frame[t], "prompt_str"),
                                  "prompt_str"),
            Value(StreamFragments))
    /\ UNCHANGED <<globals, crashed>>

LLM_GenerateStream_118(t) ==
    /\ Return(t, "LLM.GenerateStream_118", result[t])
    /\ UNCHANGED <<globals, frame, crashed>>

\* nativeStopGeneration()
LLM_StopGeneration_Call(t) ==
    /\ Enter(t, [op |-> "LLM.StopGeneration"], "LLM.StopGeneration_128")
    /\ UNCHANGED <<globals, crashed>>

\* StopGeneration storing true instead of false.
LLM_StopGeneration_128_sets(t) ==
    /\ Return(t, "LLM.StopGeneration_128", Void)
    /\ g_is_generating' = TRUE
    /\ UNCHANGED <<g_model, g_ctx, g_whisper_ctx, frame, crashed>>

\* The store to the plain bool races with the same store in another thread;
\* every outcome of that race leaves the flag false.
LLM_StopGeneration_128(t) ==
    /\ Return(t, "LLM.StopGeneration_128", Void)
    /\ g_is_generating' = FALSE
    /\ UNCHANGED <<g_model, g_ctx, g_whisper_ctx, frame, crashed>>

(***************************************************************************)
(* rand() is the C library's generator: its algorithm and its state at the *)
(* time of a call are not fixed by the source.  It is modelled by a 16-bit *)
(* Lehmer generator; the state a GetEmbedding call finds it in is an input *)
(* drawn from RandSeeds.                                                   *)
(***************************************************************************)
RandNext(s) == (s * 75 + 74) % 65537

RECURSIVE RandStream(_, _)
\* the next n values rand() returns from state s (the first half, then the
\* second half continuing from the last value of the first)
RandStream(s, n) ==
    IF n = 0 THEN << >>
    ELSE IF n = 1 THEN <<RandNext(s)>>
    ELSE LET h == n \div 2
             first == RandStream(s, h)
         IN  first \o RandStream(first[h], n - h)

\* const int dimension = 384 (line 147)
dimension == 384

\* The fill loop stopping one element short of the array.
EmbeddingData_short(seed) ==
    LET r == RandStream(seed, dimension - 1)
    IN  [i \in 1..(dimension - 1) |-> (r[i] % 200) - 100]

\* Lines 148-155: the array of `dimension` floats, filled by the loop with
\* data[i] = (float)(rand() % 200 - 100) / 100.0f, in hundredths.
EmbeddingData(seed) ==
    LET r == RandStream(seed, dimension)
    IN  [i \in 1..dimension |-> (r[i] % 200) - 100]

\* The array per rand() state, computed once.
EmbeddingTable == [s \in RandSeeds |-> EmbeddingData(s)]

\* nativeGetEmbedding(text)
LLM_GetEmbedding_Call(t) ==
    /\ \E x \in Texts :
          Enter(t, [op |-> "LLM.GetEmbedding", text |-> x, handle |-> g_model],
                "LLM.GetEmbedding_141")
    /\ UNCHANGED <<globals, crashed>>

\* Lines 141-158: borrow the text, build the array, release the text.  The
\* text is not read.
LLM_GetEmbedding_141(t) ==
    /\ \E s \in RandSeeds :
          Body(t, "LLM.GetEmbedding_141", "LLM.GetEmbedding_160",
               ReleaseStringUTFChars(GetStringUTFChars(frame[t], "text_str"),
                                     "text_str"),
               Value(EmbeddingTable[s]))
    /\ UNCHANGED <<globals, crashed>>

LLM_GetEmbedding_160(t) ==
    /\ Return(t, "LLM.GetEmbedding_160", result[t])
    /\ UNCHANGED <<globals, frame, crashed>>

\* The arguments handed to NewObject at lines 177-184.
ModelInfo ==
    [name |-> "Unknown Model", parameterCount |-> 0, contextLength |-> 2048,
     embeddingSize |-> 384, quantization |-> "Unknown", fileSizeMB |-> 0]

\* nativeGetModelInfo()
LLM_GetModelInfo(t) ==
    /\ Atomic(t, [op |-> "LLM.GetModelInfo", handle |-> g_model], Value(ModelInfo))
    /\ UNCHANGED <<globals, crashed>>

\* nativeUnloadModel()
LLM_UnloadModel_Call(t) ==
    /\ Enter(t, [op |-> "LLM.UnloadModel"], "LLM.UnloadModel_199")
    /\ UNCHANGED <<globals, crashed>>

\* Lines 199-200; the frees of lines 196-197 are commented out.
LLM_UnloadModel_199(t) ==
    /\ Return(t, "LLM.UnloadModel_199", Void)
    /\ g_ctx' = nullptr
    /\ g_model' = nullptr
    /\ UNCHANGED <<g_is_generating, g_whisper_ctx, frame, crashed>>

\* What /proc/meminfo may hold: it cannot be opened, it has no MemAvailable
\* line, or the line gives this many kB.
MemInfos == {[open |-> FALSE, kB |-> 0], [open |-> TRUE, kB |-> 0],
             [open |-> TRUE, kB |-> 3145728]}

\* nativeGetAvailableMemory()
LLM_GetAvailableMemory(t) ==
    /\ \E m \in MemInfos :
          Atomic(t, [op |-> "LLM.GetAvailableMemory"],
                 Value(IF ~m.open THEN 0 ELSE m.kB \div 1024))
    /\ UNCHANGED <<globals, crashed>>

(***************************************************************************)
(* whisper_jni.cpp                                                         *)
(***************************************************************************)
\* nativeLoadModel(model_path)
ASR_LoadModel_Call(t) ==
    /\ \E p \in Paths :
          Enter(t, [op |-> "ASR.LoadModel", model_path |-> p,
                    handle |-> g_whisper_ctx], "ASR.LoadModel_24")
    /\ UNCHANGED <<globals, crashed>>

\* Lines 24-31: borrow the path, log it, release it.  The
\* whisper_init_from_file call of line 29 is commented out: g_whisper_ctx is
\* not assigned.
ASR_LoadModel_24(t) ==
    /\ Body(t, "ASR.LoadModel_24", "ASR.LoadModel_33",
            ReleaseStringUTFChars(
                ReadBuffer(GetStringUTFChars(frame[t], "path"), "path"), "path"),
            Unset)
    /\ UNCHANGED <<globals, crashed>>

ASR_LoadModel_33(t) ==
    /\ Return(t, "ASR.LoadModel_33", Value(JNI_TRUE))
    /\ UNCHANGED <<globals, frame, crashed>>

\* return g_whisper_ctx != nullptr ? JNI_TRUE : JNI_FALSE (line 43)
ASR_Loaded == IF g_whisper_ctx # nullptr THEN JNI_TRUE ELSE JNI_FALSE

\* nativeIsModelLoaded()
ASR_IsModelLoaded(t) ==
    /\ Atomic(t, [op |-> "ASR.IsModelLoaded"], Value(ASR_Loaded))
    /\ UNCHANGED <<globals, crashed>>

\* What a read of a released buffer may see instead of its characters.
Freed == "<freed memory>"

\* The values a read of buffer b can yield when b was borrowed holding v:
\* v while it is held; after its Release the memory may still hold v or not.
BufferContents(f, b, v) == IF b \in f.held THEN {v} ELSE {v, Freed}

\* "[JNI] " followed by six CJK characters (lines 85 and 95), as code points
SegmentText == <<91, 74, 78, 73, 93, 32, 27169, 25311, 36716, 24405, 32467, 26524>>
TranscriptText == <<91, 74, 78, 73, 93, 32, 27169, 25311, 36716, 24405, 25991, 26412>>

\* The arguments handed to NewObject at lines 84-100; confidences in hundredths.
TranscriptionResult(language) ==
    [text |-> TranscriptText,
     segments |-> << [text |-> SegmentText, startTimeMs |-> 0, endTimeMs |-> 3000,
                      confidence |-> 95] >>,
     processingTimeMs |-> 500,
     language |-> language,
     confidence |-> 90]

\* nativeTranscribe(samples, language)
ASR_Transcribe_Call(t) ==
    /\ \E s \in SampleArrays, l \in Languages :
          Enter(t, [op |-> "ASR.Transcribe", samples |-> s, language |-> l,
                    handle |-> g_whisper_ctx], "ASR.Transcribe_56")
    /\ UNCHANGED <<globals, crashed>>

\* Lines 56-69: borrow the samples and the language, log the language,
\* release both.  The whisper_full call of line 66 is commented out.
ASR_Transcribe_56(t) ==
    /\ Body(t, "ASR.Transcribe_56", "ASR.Transcribe_72",
            ReleaseStringUTFChars(
                ReleaseFloatArrayElements(
                    ReadBuffer(
                        GetStringUTFChars(
                            GetFloatArrayElements(frame[t], "sample_data"),
                            "lang"),
                        "lang"),
                    "sample_data"),
                "lang"),
            Unset)
    /\ UNCHANGED <<globals, crashed>>

\* Lines 72-100 build and return the result object.  NewStringUTF(lang) at
\* line 98 reads lang: the call returns with what the read saw, or, lang
\* being released, the read aborts the process.
ASR_Transcribe_72(t) ==
    /\ ~crashed
    /\ pc[t] = "ASR.Transcribe_72"
    /\ frame' = [frame EXCEPT ![t] = ReadBuffer(@, "lang")]
    /\ \/ /\ \E l \in BufferContents(frame[t], "lang", call[t].language) :
                Return(t, "ASR.Transcribe_72", Value(TranscriptionResult(l)))
          /\ UNCHANGED crashed
       \/ /\ "lang" \notin frame[t].held
          /\ crashed' = TRUE
          /\ UNCHANGED <<pc, call, ret, result>>
    /\ UNCHANGED globals

\* nativeTranscribeFile(file_path, language)
ASR_TranscribeFile_Call(t) ==
    /\ \E r \in FileRequests :
          Enter(t, [op |-> "ASR.TranscribeFile", request |-> r,
                    handle |-> g_whisper_ctx], "ASR.TranscribeFile_113")
    /\ UNCHANGED <<globals, crashed>>

\* TranscribeFile without the Release of the language string.
ASR_TranscribeFile_113_leak(t) ==
    /\ Body(t, "ASR.TranscribeFile_113", "ASR.TranscribeFile_124",
            ReleaseStringUTFChars(
                ReadBuffer(
                    GetStringUTFChars(GetStringUTFChars(frame[t], "path"), "lang"),
                    "path"),
                "path"),
            Unset)
    /\ UNCHANGED <<globals, crashed>>

\* Lines 113-121: borrow the path and the language, log the path, release
\* both.  Nothing is read from the file.
ASR_TranscribeFile_113(t) ==
    /\ Body(t, "ASR.TranscribeFile_113", "ASR.TranscribeFile_124",
            ReleaseStringUTFChars(
                ReleaseStringUTFChars(
                    ReadBuffer(
                        GetStringUTFChars(GetStringUTFChars(frame[t], "path"), "lang"),
                        "path"),
                    "path"),
                "lang"),
            Unset)
    /\ UNCHANGED <<globals, crashed>>

\* return nullptr
ASR_TranscribeFile_124(t) ==
    /\ Return(t, "ASR.TranscribeFile_124", Null)
    /\ UNCHANGED <<globals, frame, crashed>>

\* nativeUnloadModel()
ASR_UnloadModel_Call(t) ==
    /\ Enter(t, [op |-> "ASR.UnloadModel"], "ASR.UnloadModel_138")
    /\ UNCHANGED <<globals, crashed>>

\* Line 138; the whisper_free of line 136 is commented out.
ASR_UnloadModel_138(t) ==
    /\ Return(t, "ASR.UnloadModel_138", Void)
    /\ g_whisper_ctx' = nullptr
    /\ UNCHANGED <<g_model, g_ctx, g_is_generating, frame, crashed>>

(***************************************************************************)
(* The bridge: any thread may be at any step of any entry point; once the  *)
(* process has aborted nothing runs.                                       *)
(***************************************************************************)
Next ==
    \E t \in Threads :
        \/ LLM_LoadModel_Call(t) \/ LLM_LoadModel_31(t) \/ LLM_LoadModel_46(t)
        \/ LLM_IsModelLoaded(t)
        \/ LLM_Generate_Call(t) \/ LLM_Generate_72(t) \/ LLM_Generate_83(t)
        \/ LLM_GenerateStream_Call(t) \/ LLM_GenerateStream_99(t)
        \/ LLM_GenerateStream_118(t)
        \/ LLM_StopGeneration_Call(t) \/ LLM_StopGeneration_128(t)
        \/ LLM_GetEmbedding_Call(t) \/ LLM_GetEmbedding_141(t)
        \/ LLM_GetEmbedding_160(t)
        \/ LLM_GetModelInfo(t)
        \/ LLM_UnloadModel_Call(t) \/ LLM_UnloadModel_199(t)
        \/ LLM_GetAvailableMemory(t)
        \/ ASR_LoadModel_Call(t) \/ ASR_LoadModel_24(t) \/ ASR_LoadModel_33(t)
        \/ ASR_IsModelLoaded(t)
        \/ ASR_Transcribe_Call(t) \/ ASR_Transcribe_56(t) \/ ASR_Transcribe_72(t)
        \/ ASR_TranscribeFile_Call(t) \/ ASR_TranscribeFile_113(t)
        \/ ASR_TranscribeFile_124(t)
        \/ ASR_UnloadModel_Call(t) \/ ASR_UnloadModel_138(t)

Spec == Init /\ [][Next]_vars

(***************************************************************************)
(* Properties.  A call has returned when its thread is idle again; what it *)
(* returned is ret[t].  No entry point of the bridge throws: a failure     *)
(* reported with an error code would be a return of kind "exception".      *)
(***************************************************************************)
Returned(t) == pc[t] = "idle" /\ call[t].op # "none"

Failed(r, codes) == r.kind = "exception" /\ r.code \in codes

LLM_InferencePcs ==
    {"LLM.Generate_72", "LLM.Generate_83",
     "LLM.GenerateStream_99", "LLM.GenerateStream_118"}

ASR_InferencePcs ==
    {"ASR.Transcribe_56", "ASR.Transcribe_72",
     "ASR.TranscribeFile_113", "ASR.TranscribeFile_124"}

\* C1: a LoadModel call with a valid path that returns true leaves the
\* engine in a state where IsModelLoaded returns true, and an UnloadModel
\* call leaves it in a state where IsModelLoaded returns false, for the
\* text-generation and the speech-recognition engine.
C1_LoadThenLoadedUnloadThenNot ==
    [][\A t \in Threads :
          /\ ( /\ pc[t] = "LLM.LoadModel_46" /\ pc'[t] = "idle"
               /\ call[t].model_path \in ValidPaths
               /\ ret'[t] = Value(JNI_TRUE) ) => (LLM_Loaded' = JNI_TRUE)
          /\ ( /\ pc[t] = "ASR.LoadModel_33" /\ pc'[t] = "idle"
               /\ call[t].model_path \in ValidPaths
               /\ ret'[t] = Value(JNI_TRUE) ) => (ASR_Loaded' = JNI_TRUE)
          /\ (pc[t] = "LLM.UnloadModel_199" /\ pc'[t] = "idle")
                => (LLM_Loaded' = JNI_FALSE)
          /\ (pc[t] = "ASR.UnloadModel_138" /\ pc'[t] = "idle")
                => (ASR_Loaded' = JNI_FALSE)
      ]_vars

\* C2: a Generate call entered while no model is loaded (the handle is
\* null) fails with ModelNotLoaded, whatever the prompt and parameters; it
\* does not return text.
C2_GenerateWithoutModelFails ==
    \A t \in Threads :
        (Returned(t) /\ call[t].op = "LLM.Generate" /\ call[t].handle = nullptr)
            => Failed(ret[t], {"ModelNotLoaded"})

\* The buffers each entry point borrows.
Borrows(op) ==
    CASE op \in {"LLM.LoadModel", "ASR.LoadModel"} -> {"path"}
      [] op \in {"LLM.Generate", "LLM.GenerateStream"} -> {"prompt_str"}
      [] op = "LLM.GetEmbedding" -> {"text_str"}
      [] op = "ASR.Transcribe" -> {"sample_data", "lang"}
      [] op = "ASR.TranscribeFile" -> {"path", "lang"}
      [] OTHER -> {}

\* C3: when a call of any entry point has returned, every buffer it
\* borrowed (its strings and its sample array) has been released exactly
\* once and none is still held; no buffer is ever released twice.
C3_BorrowedReleasedExactlyOnce ==
    \A t \in Threads :
        /\ \A b \in Buffers : frame[t].relCount[b] <= 1
        /\ Returned(t) =>
              /\ frame[t].acquired = Borrows(call[t].op)
              /\ frame[t].held = {}
              /\ \A b \in Buffers :
                    frame[t].relCount[b] = (IF b \in frame[t].acquired THEN 1 ELSE 0)

\* C3 witness: a TranscribeFile call and a Transcribe call have returned,
\* each having borrowed two buffers and released each of them once.
C3_Witness ==
    \E t, u \in Threads :
        /\ Returned(t) /\ call[t].op = "ASR.TranscribeFile"
        /\ frame[t].acquired = {"path", "lang"}
        /\ frame[t].relCount["path"] = 1 /\ frame[t].relCount["lang"] = 1
        /\ Returned(u) /\ call[u].op = "ASR.Transcribe"
        /\ frame[u].acquired = {"sample_data", "lang"}
        /\ frame[u].relCount["sample_data"] = 1 /\ frame[u].relCount["lang"] = 1

\* C4: at most one inference call (Generate, GenerateStream; Transcribe,
\* TranscribeFile) is inside the bridge per engine at any time.
C4_OneInferenceInFlight ==
    /\ Cardinality({t \in Threads : pc[t] \in LLM_InferencePcs}) <= 1
    /\ Cardinality({t \in Threads : pc[t] \in ASR_InferencePcs}) <= 1

\* C5: StopGeneration, whatever the other threads are doing, returns
\* without error, leaves the flag false, leaves the model and context
\* pointers and every other thread's call untouched, and when the flag was
\* already false changes none of the statics.
C5_StopGenerationOnlyClearsFlag ==
    [][\A t \in Threads :
          (pc[t] = "LLM.StopGeneration_128" /\ pc'[t] = "idle") =>
              /\ g_is_generating' = FALSE
              /\ g_model' = g_model /\ g_ctx' = g_ctx
              /\ g_whisper_ctx' = g_whisper_ctx
              /\ ret'[t] = Void
              /\ (g_is_generating = FALSE => UNCHANGED globals)
              /\ \A u \in Threads \ {t} :
                    /\ pc'[u] = pc[u] /\ frame'[u] = frame[u]
                    /\ result'[u] = result[u]
              /\ crashed' = crashed
      ]_vars

\* C5 witness: a StopGeneration call has returned while another thread is
\* inside Generate or GenerateStream.
C5_Witness ==
    \E t, u \in Threads :
        /\ t # u
        /\ Returned(t) /\ call[t].op = "LLM.StopGeneration" /\ ret[t] = Void
        /\ pc[u] \in LLM_InferencePcs

RECURSIVE Concat(_)
\* the fragments, concatenated in order
Concat(fragments) ==
    IF fragments = << >> THEN << >> ELSE Head(fragments) \o Concat(Tail(fragments))

\* C6: for the same prompt and parameters, the fragments GenerateStream
\* returns, concatenated in order, are the text Generate returns.
C6_StreamConcatenatesToGenerate ==
    \A t, u \in Threads :
        ( /\ Returned(t) /\ call[t].op = "LLM.Generate" /\ ret[t].kind = "value"
          /\ Returned(u) /\ call[u].op = "LLM.GenerateStream" /\ ret[u].kind = "value"
          /\ call[t].request = call[u].request )
            => Concat(ret[u].value) = ret[t].value

\* C7: TranscribeFile, which the bridge does not implement, returns an
\* explicit Unimplemented/Unsupported failure for every path and language,
\* never null.
C7_TranscribeFileReportsUnimplemented ==
    \A t \in Threads :
        (Returned(t) /\ call[t].op = "ASR.TranscribeFile")
            => /\ ret[t].kind # "null"
               /\ Failed(ret[t], {"Unimplemented", "Unsupported"})

\* C8: the vector a GetEmbedding call returns has as many elements as the
\* embeddingSize that GetModelInfo returns.
C8_EmbeddingLengthIsDeclaredSize ==
    \A t, u \in Threads :
        ( /\ Returned(t) /\ call[t].op = "LLM.GetEmbedding"
          /\ Returned(u) /\ call[u].op = "LLM.GetModelInfo" )
            => /\ ret[t].kind = "value"
               /\ ret[u].kind = "value"
               /\ Len(ret[t].value) = ret[u].value.embeddingSize

\* C8 witness: one thread has an embedding, another the model info.
C8_Witness ==
    \E t, u \in Threads :
        /\ Returned(t) /\ call[t].op = "LLM.GetEmbedding" /\ ret[t].kind = "value"
        /\ Returned(u) /\ call[u].op = "LLM.GetModelInfo" /\ ret[u].kind = "value"

\* C9: LoadModel with an empty path or one that names no readable model
\* file returns false and leaves the engine handle as it found it, and it
\* returns true only when the engine handle is a real (non-null) handle,
\* for both adapters.
C9_LoadModelFailsOnBadPath ==
    [][\A t \in Threads :
          /\ (pc[t] = "LLM.LoadModel_46" /\ pc'[t] = "idle") =>
                /\ call[t].model_path \notin ValidPaths =>
                      (ret'[t] = Value(JNI_FALSE) /\ g_model' = call[t].handle)
                /\ ret'[t] = Value(JNI_TRUE) => g_model' # nullptr
          /\ (pc[t] = "ASR.LoadModel_33" /\ pc'[t] = "idle") =>
                /\ call[t].model_path \notin ValidPaths =>
                      (ret'[t] = Value(JNI_FALSE) /\ g_whisper_ctx' = call[t].handle)
                /\ ret'[t] = Value(JNI_TRUE) => g_whisper_ctx' # nullptr
      ]_vars

\* C10: no entry point reads a borrowed buffer after releasing it.
C10_NoReadAfterRelease ==
    \A t \in Threads : frame[t].stale = {}
====
